---- MODULE Spec2Model ----
(***************************************************************************)
(* A model of python-pptx's shape element classes                          *)
(* (pptx/oxml/autoshape.py): the <p:spPr> fill mutator, the <a:prstGeom>    *)
(* guide rewriter, the <p:sp> builders and classifiers, and the layout      *)
(* placeholder collection and shape factory exercised by                    *)
(* tests/parts/test_slidelayout.py.                                         *)
(*                                                                         *)
(* An element is a record; a parent's children are a sequence in document   *)
(* order. Element identity (Python's `is`) is the id field: a new element   *)
(* takes the next unused id.                                                *)
(***************************************************************************)
EXTENDS Integers, Sequences, FiniteSets, TLC

VARIABLES
    \* a <p:spPr> element under the fill mutator
    spPr,          \* children of the <p:spPr> element, in document order
    nextId,        \* identity the next created element takes
    ret,           \* id of the element get_or_change_to_solidFill returned last, 0 before any call
    coerceRun,     \* consecutive get_or_change_to_solidFill calls just made (0, 1, 2 = two or more)
    prior,         \* spPr as it was before the last operation
    priorRet,      \* ret as it was before the last operation
    \* an <a:prstGeom> element under rewrite_guides
    geom,          \* [avLst: whether the <a:avLst> child exists, gd: its <a:gd> children]
    guidesArg,     \* the argument of the last rewrite_guides call
    guidesOutcome, \* "none" before any call, then "returned" or "raised"
    priorGeom,     \* geom as it was before the last call
    repeated,      \* the last call repeated the argument of a call that returned just before
    \* a <p:sp> element made by one of the builders
    sp,            \* the element
    built,         \* the builder called and its arguments
    \* a layout's placeholder collection
    placeholders,  \* the placeholders, in document order
    getArgs,       \* the arguments of the last get call
    getResult,     \* what the last get call returned
    \* the layout shape factory
    ctorCalls,     \* the constructor calls made so far, in order
    factoryCalls,  \* the number of _LayoutShapeFactory calls made so far
    factoryResult  \* what the last _LayoutShapeFactory call got and returned

fillVars == <<spPr, nextId, ret, coerceRun, prior, priorRet>>

guideVars == <<geom, guidesArg, guidesOutcome, priorGeom, repeated>>

shapeVars == <<sp, built>>

phVars == <<placeholders, getArgs, getResult>>

factoryVars == <<ctorCalls, factoryCalls, factoryResult>>

vars == <<fillVars, guideVars, shapeVars, phVars, factoryVars>>

(***************************************************************************)
(* Bounds                                                                   *)
(***************************************************************************)
\* most children a parsed <p:spPr> starts with
MaxKids == 3
\* most children a <p:spPr> holds when a line/effect child is still added
MaxChildren == 4

(***************************************************************************)
(* Tag names                                                                *)
(***************************************************************************)
\* the fill elements get_or_change_to_solidFill removes
OtherFillTags == <<"a:noFill", "a:gradFill", "a:blipFill", "a:pattFill", "a:grpFill">>

\* the elements a solidFill is inserted before
SuccessorTags == <<"a:ln", "a:effectLst", "a:effectDag", "a:scene3d", "a:sp3d", "a:extLst">>

Range(s) == {s[i] : i \in 1..Len(s)}

FillTags == {"a:solidFill"} \cup Range(OtherFillTags)

\* the children of <p:spPr> in the order the templates and the mutator use
SchemaOrder ==
    <<"a:xfrm", "a:prstGeom", "a:noFill", "a:solidFill", "a:gradFill", "a:blipFill",
      "a:pattFill", "a:grpFill">> \o SuccessorTags

SpPrTags == Range(SchemaOrder)

(***************************************************************************)
(* lxml primitives                                                          *)
(***************************************************************************)
\* Element(tag): a new element without children
Element(tag, id) == [tag |-> tag, id |-> id, kids |-> <<>>]

\* self.find(qn(tagname)): position of the first child with that tag, 0 for None
Find(children, tagname) ==
    LET hits == {i \in 1..Len(children) : children[i].tag = tagname}
    IN  IF hits = {} THEN 0 ELSE CHOOSE i \in hits : \A j \in hits : i <= j

\* self.remove(element)
Remove(children, i) ==
    SubSeq(children, 1, i - 1) \o SubSeq(children, i + 1, Len(children))

\* successor.addprevious(element)
AddPrevious(children, i, e) ==
    SubSeq(children, 1, i - 1) \o <<e>> \o SubSeq(children, i, Len(children))

\* self.append(element)
AppendChild(children, e) == Append(children, e)

(***************************************************************************)
(* CT_ShapeProperties                                                       *)
(***************************************************************************)
RECURSIVE _first_successor_in(_, _)
\* a mutant: the last of the successor tags present, not the first
_first_successor_in_last(children, successor_tagnames) ==
    LET hits == {k \in 1..Len(successor_tagnames) :
                    Find(children, successor_tagnames[k]) # 0}
    IN  IF hits = {} THEN 0
        ELSE Find(children,
                  successor_tagnames[CHOOSE k \in hits : \A j \in hits : j <= k])

_first_successor_in(children, successor_tagnames) ==
    IF successor_tagnames = <<>> THEN 0
    ELSE LET successor == Find(children, Head(successor_tagnames))
         IN  IF successor # 0 THEN successor
             ELSE _first_successor_in(children, Tail(successor_tagnames))

RECURSIVE _remove_if_present(_, _)
\* a mutant: a:grpFill is not among the tags removed
_remove_if_present_short(children, tagnames) ==
    IF tagnames = <<>> THEN children
    ELSE LET element == Find(children, Head(tagnames))
             rest    == IF element # 0 /\ Head(tagnames) # "a:grpFill"
                        THEN Remove(children, element) ELSE children
         IN  _remove_if_present(rest, Tail(tagnames))

_remove_if_present(children, tagnames) ==
    IF tagnames = <<>> THEN children
    ELSE LET element == Find(children, Head(tagnames))
             rest    == IF element # 0 THEN Remove(children, element) ELSE children
         IN  _remove_if_present(rest, Tail(tagnames))

\* the result of a call: the children afterwards and the id of the element returned
_add_solidFill(children, id) ==
    LET solidFill == Element("a:solidFill", id)
        successor == _first_successor_in(children, SuccessorTags)
    IN  [children |-> IF successor # 0
                      THEN AddPrevious(children, successor, solidFill)
                      ELSE AppendChild(children, solidFill),
         ret      |-> id]

\* the solidFill property: position of the <a:solidFill> child, 0 for None
solidFill(children) == Find(children, "a:solidFill")

\* a mutant: no early return, the solidFill is always replaced by a new one
get_or_change_to_solidFill_always_new(children, id) ==
    _add_solidFill(_remove_if_present(children, <<"a:solidFill">> \o OtherFillTags), id)

get_or_change_to_solidFill(children, id) ==
    IF solidFill(children) # 0
    THEN [children |-> children, ret |-> children[solidFill(children)].id]
    ELSE _add_solidFill(_remove_if_present(children, OtherFillTags), id)

(***************************************************************************)
(* The subtrees a <p:spPr> is parsed from                                   *)
(***************************************************************************)
\* children with the given tags, ids 1..n, a solidFill holding the given colour children
Parsed(tags, colour) ==
    [i \in 1..Len(tags) |->
        [tag |-> tags[i], id |-> i,
         kids |-> IF tags[i] = "a:solidFill" THEN colour ELSE <<>>]]

ColourKids == {<<>>, <<"a:srgbClr">>}

\* sequences of at most n distinct tags
RECURSIVE DistinctSeqs(_)
DistinctSeqs(n) ==
    IF n = 0 THEN {<<>>}
    ELSE LET shorter == DistinctSeqs(n - 1)
         IN  shorter \cup UNION {{Append(s, t) : t \in SpPrTags \ Range(s)} :
                                     s \in {q \in shorter : Len(q) = n - 1}}

\* the tags of S in schema order
InSchemaOrder(S) == SelectSeq(SchemaOrder, LAMBDA t : t \in S)

\* a schema-valid <p:spPr>: schema order, at most one fill element
ValidTagSeqs ==
    {InSchemaOrder(S) : S \in {T \in SUBSET SpPrTags :
                                  /\ Cardinality(T) <= MaxKids
                                  /\ Cardinality(T \cap FillTags) <= 1}}

\* any <p:spPr> with at most one element of each child kind
LooseTagSeqs == DistinctSeqs(MaxKids)

(***************************************************************************)
(* Operations on a <p:spPr>                                                 *)
(***************************************************************************)
\* fill.solid(): the caller coerces the fill to a solid fill
Coerce ==
    LET r == get_or_change_to_solidFill(spPr, nextId)
    IN  /\ spPr' = r.children
        /\ ret' = r.ret
        /\ nextId' = IF r.ret = nextId THEN nextId + 1 ELSE nextId
        /\ coerceRun' = IF coerceRun = 0 THEN 1 ELSE 2
        /\ prior' = spPr
        /\ priorRet' = ret
        /\ UNCHANGED <<guideVars, shapeVars, phVars, factoryVars>>

\* position of the first child that follows `tag` in schema order, 0 if none
LaterInSchema(children, tag) ==
    LET pos  == CHOOSE k \in 1..Len(SchemaOrder) : SchemaOrder[k] = tag
        hits == {i \in 1..Len(children) :
                    \E k \in (pos + 1)..Len(SchemaOrder) : children[i].tag = SchemaOrder[k]}
    IN  IF hits = {} THEN 0 ELSE CHOOSE i \in hits : \A j \in hits : i <= j

\* a line, effect, 3-D or extension child is added at its place in the schema order
AddSuccessor(tag) ==
    /\ Find(spPr, tag) = 0
    /\ Len(spPr) < MaxChildren
    /\ LET e   == Element(tag, nextId)
           pos == LaterInSchema(spPr, tag)
       IN  spPr' = IF pos # 0 THEN AddPrevious(spPr, pos, e) ELSE AppendChild(spPr, e)
    /\ nextId' = nextId + 1
    /\ coerceRun' = 0
    /\ prior' = spPr
    /\ priorRet' = ret
    /\ UNCHANGED <<ret, guideVars, shapeVars, phVars, factoryVars>>

\* the caller attaches a colour to the solidFill it was handed
AttachColour ==
    /\ ret # 0
    /\ \E i \in 1..Len(spPr) :
          /\ spPr[i].id = ret
          /\ spPr[i].kids = <<>>
          /\ spPr' = [spPr EXCEPT ![i].kids = <<"a:srgbClr">>]
    /\ coerceRun' = 0
    /\ prior' = spPr
    /\ priorRet' = ret
    /\ UNCHANGED <<ret, nextId, guideVars, shapeVars, phVars, factoryVars>>

FillInit(tagSeqs) ==
    /\ \E tags \in tagSeqs, colour \in ColourKids :
          /\ colour # <<>> => \E i \in 1..Len(tags) : tags[i] = "a:solidFill"
          /\ spPr = Parsed(tags, colour)
          /\ nextId = Len(tags) + 1
    /\ ret = 0
    /\ coerceRun = 0
    /\ prior = <<>>
    /\ priorRet = 0

FillNext ==
    \/ Coerce
    \/ \E tag \in Range(SuccessorTags) : AddSuccessor(tag)
    \/ AttachColour

\* the <p:spPr> of a specification about something else
FillIdle ==
    /\ spPr = <<>>
    /\ nextId = 1
    /\ ret = 0
    /\ coerceRun = 0
    /\ prior = <<>>
    /\ priorRet = 0

(***************************************************************************)
(* CT_PresetGeometry2D                                                      *)
(***************************************************************************)
\* most entries of a guide list
MaxGuides == 2

GuideNames == {"adj1", "adj2"}

\* a guide value: an integer, or a value '%d' rejects (a str, None)
GuideVals == {[kind |-> "int", v |-> -5], [kind |-> "int", v |-> 120], [kind |-> "str", v |-> 0]}

GuideEntries == [name : GuideNames, val : GuideVals]

\* the guide lists of at most n entries
RECURSIVE GuideLists(_)
GuideLists(n) ==
    IF n = 0 THEN {<<>>}
    ELSE LET shorter == GuideLists(n - 1)
         IN  shorter \cup {Append(g, e) : g \in {q \in shorter : Len(q) = n - 1},
                                          e \in GuideEntries}

\* whether every value of the list is an integer
AllInts(guides) == \A i \in 1..Len(guides) : guides[i].val.kind = "int"

Digits == <<"0", "1", "2", "3", "4", "5", "6", "7", "8", "9">>

\* the decimal digits of a natural number
RECURSIVE NatStr(_)
NatStr(n) ==
    IF n < 10 THEN <<Digits[n + 1]>>
    ELSE NatStr(n \div 10) \o <<Digits[(n % 10) + 1]>>

\* '%d' % v for an integer v
PercentD(v) == IF v < 0 THEN <<"-">> \o NatStr(-v) ELSE NatStr(v)

\* 'val %d' % v
ValFmla(v) == <<"v", "a", "l", " ">> \o PercentD(v)

\* the gd property: the <a:gd> children of <a:avLst>, empty without an <a:avLst>
gd(g) == IF g.avLst THEN g.gd ELSE <<>>

\* the loop over guides: each entry appends a <a:gd>, sets its name, then its fmla;
\* a value '%d' rejects raises after the element is appended and named
RECURSIVE InsertGuides(_, _)
InsertGuides(gds, guides) ==
    IF guides = <<>> THEN [gd |-> gds, outcome |-> "returned"]
    ELSE LET name  == Head(guides).name
             val   == Head(guides).val
             named == [name |-> name]
         IN  IF val.kind # "int"
             THEN [gd |-> Append(gds, named), outcome |-> "raised"]
             ELSE InsertGuides(Append(gds, [name |-> name, fmla |-> ValFmla(val.v)]),
                               Tail(guides))

\* a mutant: the <a:gd> children present are not removed
rewrite_guides_keep(g, guides) ==
    LET r == InsertGuides(gd(g), guides)
    IN  [geom |-> [avLst |-> TRUE, gd |-> r.gd], outcome |-> r.outcome]

\* the <a:avLst> is created when missing, its <a:gd> children are all removed,
\* then the new ones are inserted
rewrite_guides(g, guides) ==
    LET avLst   == IF g.avLst THEN g ELSE [avLst |-> TRUE, gd |-> <<>>]
        removed == [avLst EXCEPT !.gd = SelectSeq(avLst.gd, LAMBDA gd_elm : FALSE)]
        r       == InsertGuides(removed.gd, guides)
    IN  [geom |-> [removed EXCEPT !.gd = r.gd], outcome |-> r.outcome]

\* int(s) for a decimal string
RECURSIVE ParseNat(_)
ParseNat(s) ==
    IF s = <<>> THEN 0
    ELSE LET last == s[Len(s)]
             d    == CHOOSE k \in 0..9 : Digits[k + 1] = last
         IN  10 * ParseNat(SubSeq(s, 1, Len(s) - 1)) + d

ParseInt(s) == IF Head(s) = "-" THEN 0 - ParseNat(Tail(s)) ELSE ParseNat(s)

\* guides(): the (name, value) pairs of the <a:gd> elements, the value read from "val <n>"
guides(g) ==
    [i \in 1..Len(gd(g)) |->
        <<gd(g)[i].name, ParseInt(SubSeq(gd(g)[i].fmla, 5, Len(gd(g)[i].fmla)))>>]

\* a guide list of integers as its <a:gd> elements
Serialized(guideList) ==
    [i \in 1..Len(guideList) |-> [name |-> guideList[i].name, fmla |-> ValFmla(guideList[i].val.v)]]

RewriteGuides(guideList) ==
    LET r == rewrite_guides(geom, guideList)
    IN  /\ geom' = r.geom
        /\ guidesOutcome' = r.outcome
        /\ guidesArg' = guideList
        /\ priorGeom' = geom
        /\ repeated' = (guidesOutcome = "returned" /\ guideList = guidesArg)
        /\ UNCHANGED <<fillVars, shapeVars, phVars, factoryVars>>

GuidesInit ==
    /\ geom \in {[avLst |-> FALSE, gd |-> <<>>]}
                \cup {[avLst |-> TRUE, gd |-> Serialized(g)] :
                         g \in {q \in GuideLists(MaxGuides) : AllInts(q)}}
    /\ guidesArg = <<>>
    /\ guidesOutcome = "none"
    /\ priorGeom = geom
    /\ repeated = FALSE

GuidesNext == \E guideList \in GuideLists(MaxGuides) : RewriteGuides(guideList)

GuidesIdle ==
    /\ geom = [avLst |-> FALSE, gd |-> <<>>]
    /\ guidesArg = <<>>
    /\ guidesOutcome = "none"
    /\ priorGeom = geom
    /\ repeated = FALSE

(***************************************************************************)
(* CT_Shape                                                                 *)
(*                                                                         *)
(* A <p:sp> is the record sp (its tag, its <p:nvSpPr> and the tags of its   *)
(* children), with spPr the children of its <p:spPr> and geom its           *)
(* <a:prstGeom>, if spPr holds one.                                         *)
(***************************************************************************)
\* largest idx a placeholder is built with
MaxIdx == 2

PH_TYPE_TITLE == "title"
PH_TYPE_CTRTITLE == "ctrTitle"
PH_TYPE_SUBTITLE == "subTitle"
PH_TYPE_BODY == "body"
PH_TYPE_OBJ == "obj"
PH_ORIENT_HORZ == "horz"
PH_SZ_FULL == "full"

PhTypes ==
    {PH_TYPE_TITLE, PH_TYPE_CTRTITLE, PH_TYPE_SUBTITLE, PH_TYPE_BODY, PH_TYPE_OBJ,
     "pic", "chart", "tbl", "dt"}

PhOrients == {PH_ORIENT_HORZ, "vert"}

PhSizes == {PH_SZ_FULL, "half", "quarter"}

ShapeIds == {2, 10}

ShapeNames == {"Shape 1"}

Prsts == {"rect", "roundRect"}

Lengths == {0, 914400}

\* the attributes of an element without any
NoAttrs == [a \in {} |-> ""]

\* elm.set(k, v)
SetAttr(attrs, k, v) == [a \in DOMAIN attrs \cup {k} |-> IF a = k THEN v ELSE attrs[a]]

\* an attribute map of one attribute
Attr(k, v) == SetAttr(NoAttrs, k, v)

\* elm.get(k) in ('true', '1')
AttrIsTrue(attrs, k) == k \in DOMAIN attrs /\ attrs[k] \in {"true", "1"}

\* the <a:xfrm> the templates write: each length through '%d'
Xfrm(left, top, width, height) ==
    [off |-> [x |-> PercentD(left), y |-> PercentD(top)],
     ext |-> [cx |-> PercentD(width), cy |-> PercentD(height)]]

\* the results of the builders: the <p:sp>, the children of its <p:spPr>, its <a:prstGeom>
new_autoshape_sp(id_, name, prst, left, top, width, height) ==
    [sp   |-> [tag     |-> "p:sp",
               cNvPr   |-> [id |-> PercentD(id_), name |-> name],
               cNvSpPr |-> [attrs |-> NoAttrs, kids |-> <<>>],
               nvPr    |-> <<>>,
               xfrm    |-> <<Xfrm(left, top, width, height)>>,
               prst    |-> <<prst>>,
               kids    |-> <<"p:nvSpPr", "p:spPr", "p:style", "p:txBody">>],
     spPr |-> <<Element("a:xfrm", 1), Element("a:prstGeom", 2)>>,
     geom |-> [avLst |-> TRUE, gd |-> <<>>]]

new_textbox_sp(id_, name, left, top, width, height) ==
    [sp   |-> [tag     |-> "p:sp",
               cNvPr   |-> [id |-> PercentD(id_), name |-> name],
               cNvSpPr |-> [attrs |-> Attr("txBox", "1"), kids |-> <<>>],
               nvPr    |-> <<>>,
               xfrm    |-> <<Xfrm(left, top, width, height)>>,
               prst    |-> <<"rect">>,
               kids    |-> <<"p:nvSpPr", "p:spPr", "p:txBody">>],
     spPr |-> <<Element("a:xfrm", 1), Element("a:prstGeom", 2), Element("a:noFill", 3)>>,
     geom |-> [avLst |-> TRUE, gd |-> <<>>]]

\* a mutant: the type attribute is always set
ph_attrs_always_type(ph_type, orient, sz, idx) ==
    LET a1 == SetAttr(NoAttrs, "type", ph_type)
        a2 == IF orient # PH_ORIENT_HORZ THEN SetAttr(a1, "orient", orient) ELSE a1
        a3 == IF sz # PH_SZ_FULL THEN SetAttr(a2, "sz", sz) ELSE a2
    IN  IF idx # 0 THEN SetAttr(a3, "idx", PercentD(idx)) ELSE a3

\* the attributes of <p:ph>: each is set only when its argument is not the default
ph_attrs(ph_type, orient, sz, idx) ==
    LET a1 == IF ph_type # PH_TYPE_OBJ THEN SetAttr(NoAttrs, "type", ph_type) ELSE NoAttrs
        a2 == IF orient # PH_ORIENT_HORZ THEN SetAttr(a1, "orient", orient) ELSE a1
        a3 == IF sz # PH_SZ_FULL THEN SetAttr(a2, "sz", sz) ELSE a2
    IN  IF idx # 0 THEN SetAttr(a3, "idx", PercentD(idx)) ELSE a3

\* a mutant: PH_TYPE_OBJ is left out
placeholder_types_without_obj ==
    {PH_TYPE_TITLE, PH_TYPE_CTRTITLE, PH_TYPE_SUBTITLE, PH_TYPE_BODY}

placeholder_types_that_have_a_text_frame ==
    {PH_TYPE_TITLE, PH_TYPE_CTRTITLE, PH_TYPE_SUBTITLE, PH_TYPE_BODY, PH_TYPE_OBJ}

new_placeholder_sp(id_, name, ph_type, orient, sz, idx) ==
    [sp   |-> [tag     |-> "p:sp",
               cNvPr   |-> [id |-> PercentD(id_), name |-> name],
               cNvSpPr |-> [attrs |-> NoAttrs,
                            kids  |-> <<[tag |-> "a:spLocks", attrs |-> Attr("noGrp", "1")]>>],
               nvPr    |-> <<[tag |-> "p:ph", attrs |-> ph_attrs(ph_type, orient, sz, idx)]>>,
               xfrm    |-> <<>>,
               prst    |-> <<>>,
               kids    |-> IF ph_type \in placeholder_types_that_have_a_text_frame
                           THEN <<"p:nvSpPr", "p:spPr", "p:txBody">>
                           ELSE <<"p:nvSpPr", "p:spPr">>],
     spPr |-> <<>>,
     geom |-> [avLst |-> FALSE, gd |-> <<>>]]

\* a mutant: the txBox attribute is not looked at
is_autoshape_geometry_only(shape, children) == Find(children, "a:prstGeom") # 0

\* child(self.spPr, 'a:prstGeom') is not None, and txBox is not 'true' or '1'
is_autoshape(shape, children) ==
    IF Find(children, "a:prstGeom") = 0 THEN FALSE
    ELSE IF AttrIsTrue(shape.cNvSpPr.attrs, "txBox") THEN FALSE
    ELSE TRUE

is_textbox(shape) ==
    IF AttrIsTrue(shape.cNvSpPr.attrs, "txBox") THEN TRUE ELSE FALSE

\* the prst property: the prst attribute of <a:prstGeom>, absent (<<>>) without one
prst(shape, children) ==
    IF Find(children, "a:prstGeom") = 0 THEN <<>> ELSE shape.prst

\* new_autoshape_sp is called and its result becomes the shape at hand
NewAutoshapeSp ==
    \E id_ \in ShapeIds, name \in ShapeNames, p \in Prsts, left \in Lengths, width \in Lengths :
        LET r == new_autoshape_sp(id_, name, p, left, 0, width, 914400)
        IN  /\ sp' = r.sp
            /\ built' = [fn |-> "new_autoshape_sp", prst |-> p]
            /\ spPr' = r.spPr
            /\ nextId' = Len(r.spPr) + 1
            /\ geom' = r.geom
            /\ priorGeom' = r.geom
            /\ ret' = 0 /\ coerceRun' = 0 /\ prior' = <<>> /\ priorRet' = 0
            /\ guidesArg' = <<>> /\ guidesOutcome' = "none" /\ repeated' = FALSE
            /\ UNCHANGED <<phVars, factoryVars>>

\* new_textbox_sp is called and its result becomes the shape at hand
NewTextboxSp ==
    \E id_ \in ShapeIds, name \in ShapeNames, left \in Lengths, width \in Lengths :
        LET r == new_textbox_sp(id_, name, left, 0, width, 914400)
        IN  /\ sp' = r.sp
            /\ built' = [fn |-> "new_textbox_sp"]
            /\ spPr' = r.spPr
            /\ nextId' = Len(r.spPr) + 1
            /\ geom' = r.geom
            /\ priorGeom' = r.geom
            /\ ret' = 0 /\ coerceRun' = 0 /\ prior' = <<>> /\ priorRet' = 0
            /\ guidesArg' = <<>> /\ guidesOutcome' = "none" /\ repeated' = FALSE
            /\ UNCHANGED <<phVars, factoryVars>>

\* new_placeholder_sp is called and its result becomes the shape at hand
NewPlaceholderSp ==
    \E id_ \in ShapeIds, name \in ShapeNames, ph_type \in PhTypes, orient \in PhOrients,
       sz \in PhSizes, idx \in 0..MaxIdx :
        LET r == new_placeholder_sp(id_, name, ph_type, orient, sz, idx)
        IN  /\ sp' = r.sp
            /\ built' = [fn |-> "new_placeholder_sp", ph_type |-> ph_type,
                         orient |-> orient, sz |-> sz, idx |-> idx]
            /\ spPr' = r.spPr
            /\ nextId' = Len(r.spPr) + 1
            /\ geom' = r.geom
            /\ priorGeom' = r.geom
            /\ ret' = 0 /\ coerceRun' = 0 /\ prior' = <<>> /\ priorRet' = 0
            /\ guidesArg' = <<>> /\ guidesOutcome' = "none" /\ repeated' = FALSE
            /\ UNCHANGED <<phVars, factoryVars>>

\* the guide lists a built shape's geometry is rewritten with
ShapeGuideLists == {<<>>, <<[name |-> "adj1", val |-> [kind |-> "int", v |-> 120]]>>}

\* shape.adjustments: the guides of a shape that has a preset geometry are rewritten
RewriteShapeGuides ==
    /\ prst(sp, spPr) # <<>>
    /\ \E guideList \in ShapeGuideLists : RewriteGuides(guideList)

\* fill.solid() on the shape at hand
CoerceShapeFill == built.fn # "none" /\ Coerce

\* the colour of the shape's solid fill is set
AttachShapeColour == built.fn # "none" /\ AttachColour

ShapeIdle == sp = [tag |-> "none"] /\ built = [fn |-> "none"]

\* no shape is built yet
ShapeInit ==
    /\ ShapeIdle
    /\ FillIdle
    /\ geom = [avLst |-> FALSE, gd |-> <<>>]
    /\ guidesArg = <<>>
    /\ guidesOutcome = "none"
    /\ priorGeom = geom
    /\ repeated = FALSE

ShapeNext ==
    \/ NewAutoshapeSp
    \/ NewTextboxSp
    \/ NewPlaceholderSp
    \/ CoerceShapeFill
    \/ AttachShapeColour
    \/ RewriteShapeGuides

(***************************************************************************)
(* _LayoutPlaceholders                                                      *)
(***************************************************************************)
\* most placeholders of a layout
MaxPlaceholders == 3

\* the objects a caller passes as the default
Defaults == {"barfoo", "none-found"}

\* the <p:ph> attributes of a layout's placeholders: no idx, or idx 0..MaxIdx
LayoutPhAttrs == {NoAttrs} \cup {Attr("idx", PercentD(k)) : k \in 0..MaxIdx}

\* the collections of at most n placeholders; the placeholder at place i has id i
RECURSIVE PlaceholderSeqs(_)
PlaceholderSeqs(n) ==
    IF n = 0 THEN {<<>>}
    ELSE LET shorter == PlaceholderSeqs(n - 1)
         IN  shorter \cup {Append(q, [id |-> n, attrs |-> a]) :
                              q \in {r \in shorter : Len(r) = n - 1}, a \in LayoutPhAttrs}

\* placeholder.idx: the idx attribute as an integer, 0 when absent
Idx(ph) == IF "idx" \in DOMAIN ph.attrs THEN ParseInt(ph.attrs["idx"]) ELSE 0

\* all(): the placeholders in document order
all(phs) == phs

RECURSIVE ScanFirst(_, _, _)
\* the scan of get: the first placeholder of the sequence with that idx, else the default
ScanFirst(phs, idx, default) ==
    IF phs = <<>> THEN [kind |-> "default", obj |-> default]
    ELSE IF Idx(Head(phs)) = idx THEN [kind |-> "placeholder", obj |-> Head(phs)]
    ELSE ScanFirst(Tail(phs), idx, default)

\* a mutant: the scan goes on and the last placeholder with that idx wins
get_last(phs, idx, default) ==
    LET hits == {i \in 1..Len(phs) : Idx(phs[i]) = idx}
    IN  IF hits = {} THEN [kind |-> "default", obj |-> default]
        ELSE [kind |-> "placeholder", obj |-> phs[CHOOSE i \in hits : \A j \in hits : j <= i]]

get(phs, idx, default) == ScanFirst(all(phs), idx, default)

Get(idx, default) ==
    /\ getArgs' = [idx |-> idx, default |-> default]
    /\ getResult' = get(placeholders, idx, default)
    /\ UNCHANGED <<placeholders, fillVars, guideVars, shapeVars, factoryVars>>

PhIdle ==
    /\ placeholders = <<>>
    /\ getArgs = [idx |-> 0, default |-> "none"]
    /\ getResult = [kind |-> "none"]

PhInit ==
    /\ placeholders \in PlaceholderSeqs(MaxPlaceholders)
    /\ getArgs = [idx |-> 0, default |-> "none"]
    /\ getResult = [kind |-> "none"]

PhNext == \E idx \in 0..(MaxIdx + 1), default \in Defaults : Get(idx, default)

(***************************************************************************)
(* _LayoutShapeFactory                                                      *)
(***************************************************************************)
\* most factory calls of a behaviour
MaxFactoryCalls == 2

\* the elements of the factory fixture: a <p:sp> with a <p:ph> (with idx 1, and
\* without attributes), a plain <p:sp>, a <p:pic>
FactoryElms ==
    {[tag |-> "p:sp", nvPr |-> <<[tag |-> "p:ph", attrs |-> Attr("idx", PercentD(1))]>>],
     [tag |-> "p:sp", nvPr |-> <<[tag |-> "p:ph", attrs |-> NoAttrs]>>],
     [tag |-> "p:sp", nvPr |-> <<>>],
     [tag |-> "p:pic", nvPr |-> <<>>]}

\* the owners the tests hand over: the layout, its shape tree, its placeholders
Owners == {"slide_layout", "layout_shapes", "layout_placeholders"}

\* shape_elm.has_ph_elm
has_ph_elm(shape_elm) == \E i \in 1..Len(shape_elm.nvPr) : shape_elm.nvPr[i].tag = "p:ph"

\* a constructor call: what was called, with what, and the wrapper it made
CtorCall(ctor, shape_elm, parent, wrapper) ==
    [ctor |-> ctor, elm |-> shape_elm, parent |-> parent, made |-> wrapper]

\* a mutant: a placeholder is wrapped as a base shape first and as a placeholder then
LayoutShapeFactory_twice(shape_elm, parent, wrapper) ==
    IF has_ph_elm(shape_elm)
    THEN [calls  |-> <<CtorCall("BaseShapeFactory", shape_elm, parent, wrapper),
                       CtorCall("LayoutPlaceholder", shape_elm, parent, wrapper + 1)>>,
          result |-> wrapper + 1]
    ELSE [calls  |-> <<CtorCall("BaseShapeFactory", shape_elm, parent, wrapper)>>,
          result |-> wrapper]

\* _LayoutShapeFactory: the constructor calls it makes and the wrapper it returns
LayoutShapeFactory(shape_elm, parent, wrapper) ==
    IF has_ph_elm(shape_elm)
    THEN [calls  |-> <<CtorCall("LayoutPlaceholder", shape_elm, parent, wrapper)>>,
          result |-> wrapper]
    ELSE [calls  |-> <<CtorCall("BaseShapeFactory", shape_elm, parent, wrapper)>>,
          result |-> wrapper]

CallFactory(shape_elm, parent) ==
    /\ factoryCalls < MaxFactoryCalls
    /\ LET r == LayoutShapeFactory(shape_elm, parent, Len(ctorCalls) + 1)
       IN  /\ ctorCalls' = ctorCalls \o r.calls
           /\ factoryResult' = [elm |-> shape_elm, parent |-> parent, wrapper |-> r.result]
    /\ factoryCalls' = factoryCalls + 1
    /\ UNCHANGED <<fillVars, guideVars, shapeVars, phVars>>

FactoryIdle ==
    /\ ctorCalls = <<>>
    /\ factoryCalls = 0
    /\ factoryResult = [wrapper |-> 0]

FactoryNext == \E shape_elm \in FactoryElms, parent \in Owners : CallFactory(shape_elm, parent)

(***************************************************************************)
(* Specifications                                                           *)
(***************************************************************************)
\* a <p:spPr> of a schema-valid document
InitFill == FillInit(ValidTagSeqs) /\ GuidesIdle /\ ShapeIdle /\ PhIdle /\ FactoryIdle

SpecFill == InitFill /\ [][FillNext]_vars

\* a <p:spPr> as any parsed document may hold it
InitParsed == FillInit(LooseTagSeqs) /\ GuidesIdle /\ ShapeIdle /\ PhIdle /\ FactoryIdle

SpecParsed == InitParsed /\ [][FillNext]_vars

\* an <a:prstGeom> whose guides are rewritten
InitGuides == GuidesInit /\ FillIdle /\ ShapeIdle /\ PhIdle /\ FactoryIdle

SpecGuides == InitGuides /\ [][GuidesNext]_vars

\* a <p:sp> made by a builder, then changed through its fill and its guides
InitShape == ShapeInit /\ PhIdle /\ FactoryIdle

SpecShape == InitShape /\ [][ShapeNext]_vars

\* a layout's placeholder collection that is queried
InitPlaceholders == PhInit /\ FillIdle /\ GuidesIdle /\ ShapeIdle /\ FactoryIdle

SpecPlaceholders == InitPlaceholders /\ [][PhNext]_vars

\* the layout shape factory, called on the elements of a layout
InitFactory == FactoryIdle /\ FillIdle /\ GuidesIdle /\ ShapeIdle /\ PhIdle

SpecFactory == InitFactory /\ [][FactoryNext]_vars

(***************************************************************************)
(* Properties of the fill mutator                                           *)
(***************************************************************************)
FillPositions(children) == {i \in 1..Len(children) : children[i].tag \in FillTags}

\* exactly one fill element, the solidFill returned
OnlyReturnedSolidFill ==
    /\ Cardinality(FillPositions(spPr)) = 1
    /\ \A i \in FillPositions(spPr) : spPr[i].tag = "a:solidFill" /\ spPr[i].id = ret

\* C1 as stated: after get_or_change_to_solidFill returns on a <p:spPr> with at most
\* one element of each child kind, the only fill element is the solidFill returned
C1_OneFillAfterCoerce == coerceRun >= 1 => OnlyReturnedSolidFill

\* a solidFill together with another fill element
SolidFillBesideAnother(children) ==
    /\ solidFill(children) # 0
    /\ Cardinality(FillPositions(children)) >= 2

\* C1 amended: after get_or_change_to_solidFill returns on a <p:spPr> with at most one
\* element of each child kind that did not hold a solidFill beside another fill element,
\* the only fill element is the solidFill returned
C1_OneFillUnlessSolidBesideAnother ==
    (coerceRun >= 1 /\ ~SolidFillBesideAnother(prior)) => OnlyReturnedSolidFill

\* two fill elements other than solidFill were replaced by the solidFill returned
C1_Witness ==
    /\ coerceRun = 1
    /\ Find(prior, "a:noFill") # 0
    /\ Find(prior, "a:grpFill") # 0
    /\ OnlyReturnedSolidFill

\* C2: every fill element precedes every a:ln, a:effectLst, a:effectDag, a:scene3d,
\* a:sp3d and a:extLst child, and a solidFill created when none of those is present
\* is the last child
C2_FillBeforeSuccessors ==
    /\ \A i, j \in 1..Len(spPr) :
          (spPr[i].tag \in FillTags /\ spPr[j].tag \in Range(SuccessorTags)) => i < j
    /\ (/\ coerceRun = 1
        /\ solidFill(prior) = 0
        /\ \A t \in Range(SuccessorTags) : Find(spPr, t) = 0)
       => spPr[Len(spPr)].id = ret

\* a solidFill was created before an a:extLst already present, and an a:ln added
\* afterwards went between the two
C2_Witness ==
    \E i, j, k \in 1..Len(spPr) :
        /\ i < j /\ j < k
        /\ spPr[i].tag = "a:solidFill" /\ spPr[i].id = ret
        /\ spPr[j].tag = "a:ln" /\ spPr[j].id > ret
        /\ spPr[k].tag = "a:extLst" /\ spPr[k].id < ret

\* C3: a second get_or_change_to_solidFill call in a row returns the element the first
\* returned and leaves the children, their order and the colour children as they were
C3_Idempotent == coerceRun = 2 => (spPr = prior /\ ret = priorRet)

\* the second call in a row returned a solidFill that holds a colour, next to a line
C3_Witness ==
    /\ coerceRun = 2
    /\ Find(spPr, "a:ln") # 0
    /\ \E i \in 1..Len(spPr) : spPr[i].id = ret /\ spPr[i].kids # <<>>

(***************************************************************************)
(* Properties of rewrite_guides                                             *)
(***************************************************************************)
\* the (name, value) pairs of a guide list of integers
Pairs(guideList) == [i \in 1..Len(guideList) |-> <<guideList[i].name, guideList[i].val.v>>]

\* C4: after a rewrite_guides call that returned, whatever calls came before,
\* guides() yields the entries of its argument, in order, and nothing else; a call
\* repeating the argument of the call before it leaves the element as it was
C4_GuidesReplaced ==
    /\ guidesOutcome = "returned" => guides(geom) = Pairs(guidesArg)
    /\ (guidesOutcome = "returned" /\ repeated) => geom = priorGeom

\* a list of two guides replaced another list of two guides
C4_Witness ==
    /\ guidesOutcome = "returned"
    /\ Len(gd(priorGeom)) = 2
    /\ Len(guidesArg) = 2
    /\ guidesArg[1].name = "adj2" /\ guidesArg[1].val.v = 120
    /\ \A i \in 1..2 : "fmla" \in DOMAIN gd(priorGeom)[i]
    /\ guides(priorGeom) = <<<<"adj1", -5>>, <<"adj2", -5>>>>
    /\ guides(geom) = <<<<"adj2", 120>>, <<"adj1", -5>>>>

\* C10: when a rewrite_guides call ends, returning or raising, the guide list is the
\* complete list from before the call or the complete new one
C10_NeverHalfReplaced ==
    guidesOutcome \in {"returned", "raised"} =>
        \/ gd(geom) = gd(priorGeom)
        \/ AllInts(guidesArg) /\ gd(geom) = Serialized(guidesArg)

(***************************************************************************)
(* Properties of the builders and the classifiers                           *)
(***************************************************************************)
\* the shape carries a <p:ph> descriptor
IsPlaceholder(shape) == \E i \in 1..Len(shape.nvPr) : shape.nvPr[i].tag = "p:ph"

\* the element is a <p:pic>
IsPicture(shape) == shape.tag = "p:pic"

Count(b) == IF b THEN 1 ELSE 0

\* C6: a shape made by a builder, however its fill and guides are changed afterwards,
\* is exactly one of autoshape, text box, placeholder and picture
C6_ExactlyOneVariant ==
    built.fn # "none" =>
        Count(is_autoshape(sp, spPr)) + Count(is_textbox(sp)) + Count(IsPlaceholder(sp))
            + Count(IsPicture(sp)) = 1

\* a text box, which has a preset geometry and the txBox flag, after its noFill was
\* replaced and its guides rewritten: a text box and no autoshape
C6_Witness ==
    /\ built.fn = "new_textbox_sp"
    /\ prst(sp, spPr) = <<"rect">>
    /\ solidFill(spPr) # 0
    /\ guidesOutcome = "returned" /\ Len(gd(geom)) = 1
    /\ is_textbox(sp) /\ ~is_autoshape(sp, spPr)

PhAttrs == sp.nvPr[1].attrs

\* C7: new_placeholder_sp sets each <p:ph> attribute if and only if its argument is not
\* the default: type unless "obj", orient unless "horz", sz unless "full", idx unless 0
C7_SparseAttributes ==
    built.fn = "new_placeholder_sp" =>
        /\ Len(sp.nvPr) = 1 /\ sp.nvPr[1].tag = "p:ph"
        /\ "type" \in DOMAIN PhAttrs <=> built.ph_type # "obj"
        /\ "orient" \in DOMAIN PhAttrs <=> built.orient # "horz"
        /\ "sz" \in DOMAIN PhAttrs <=> built.sz # "full"
        /\ "idx" \in DOMAIN PhAttrs <=> built.idx # 0
        /\ DOMAIN PhAttrs \subseteq {"type", "orient", "sz", "idx"}
        /\ "type" \in DOMAIN PhAttrs => PhAttrs["type"] = built.ph_type
        /\ "orient" \in DOMAIN PhAttrs => PhAttrs["orient"] = built.orient
        /\ "sz" \in DOMAIN PhAttrs => PhAttrs["sz"] = built.sz
        /\ "idx" \in DOMAIN PhAttrs => ParseInt(PhAttrs["idx"]) = built.idx

\* ph_type "title" with the other arguments at their defaults gave type="title" only
C7_Witness ==
    /\ built = [fn |-> "new_placeholder_sp", ph_type |-> "title", orient |-> "horz",
                sz |-> "full", idx |-> 0]
    /\ PhAttrs = Attr("type", "title")

\* C9: new_placeholder_sp appends a <p:txBody>, the last child, right after <p:spPr>,
\* if and only if ph_type is title, ctrTitle, subTitle, body or obj
C9_TextBodyIffTextType ==
    built.fn = "new_placeholder_sp" =>
        IF built.ph_type \in {"title", "ctrTitle", "subTitle", "body", "obj"}
        THEN sp.kids = <<"p:nvSpPr", "p:spPr", "p:txBody">>
        ELSE sp.kids = <<"p:nvSpPr", "p:spPr">>

\* an object placeholder got a text body and no type attribute
C9_Witness ==
    /\ built.fn = "new_placeholder_sp"
    /\ built.ph_type = "obj"
    /\ sp.kids[Len(sp.kids)] = "p:txBody"
    /\ "type" \notin DOMAIN PhAttrs

(***************************************************************************)
(* Properties of the placeholder collection and the shape factory           *)
(***************************************************************************)
\* the places of the placeholders whose idx is the one asked for
Matches == {i \in 1..Len(placeholders) : Idx(placeholders[i]) = getArgs.idx}

\* C5: get returns the placeholder with the requested idx that comes first in document
\* order, and the default handed in when no placeholder has that idx
C5_FirstMatchOrDefault ==
    getResult.kind # "none" =>
        IF Matches = {}
        THEN getResult.kind = "default" /\ getResult.obj = getArgs.default
        ELSE /\ getResult.kind = "placeholder"
             /\ \E i \in Matches :
                   /\ \A j \in Matches : i <= j
                   /\ getResult.obj = placeholders[i]

\* placeholders with idx 0, 1, 1: get(1) returned the second one, not the first (idx 0)
\* and not the third (a later idx 1)
C5_Witness ==
    /\ Len(placeholders) = 3
    /\ Idx(placeholders[1]) = 0 /\ Idx(placeholders[2]) = 1 /\ Idx(placeholders[3]) = 1
    /\ getArgs.idx = 1
    /\ getResult.kind = "placeholder" /\ getResult.obj.id = 2

\* C8: every factory call makes one constructor call, with the element and the owner it
\* was given: LayoutPlaceholder for an element with a <p:ph>, BaseShapeFactory for any
\* other; and it returns the wrapper that call made
C8_OneConstructionPerCall ==
    /\ Len(ctorCalls) = factoryCalls
    /\ factoryCalls > 0 =>
          LET last == ctorCalls[Len(ctorCalls)]
          IN  /\ last.elm = factoryResult.elm
              /\ last.parent = factoryResult.parent
              /\ last.ctor = IF \E i \in 1..Len(last.elm.nvPr) : last.elm.nvPr[i].tag = "p:ph"
                             THEN "LayoutPlaceholder" ELSE "BaseShapeFactory"
              /\ factoryResult.wrapper = last.made

\* a picture went to BaseShapeFactory, then a placeholder to LayoutPlaceholder
C8_Witness ==
    /\ factoryCalls = 2 /\ Len(ctorCalls) = 2
    /\ ctorCalls[1].elm.tag = "p:pic" /\ ctorCalls[1].ctor = "BaseShapeFactory"
    /\ ctorCalls[2].ctor = "LayoutPlaceholder" /\ ctorCalls[2].parent = "layout_placeholders"
    /\ factoryResult.wrapper = 2

====
